---- MODULE Spec2Model ----
(***************************************************************************)
(* Model of the tdw_physics target controllers Playroom (playroom.py) and  *)
(* RelationArrangement (relations.py): argument post-processing, controller*)
(* construction, and the per-trial pipeline (trial seed, zone, container,  *)
(* target, camera, distractor, physics frames, static data).               *)
(*                                                                         *)
(* The base classes (RigidbodiesDataset, Dominoes, Collision) are not among*)
(* the files at hand; the operators that stand for their methods follow    *)
(* the written specification and are marked as such in the comments.       *)
(***************************************************************************)
EXTENDS Integers, Sequences, FiniteSets

VARIABLES
    argv,       \* the command line, the same for every launch
    args,       \* the parsed arguments (parser.parse_args, then postprocess)
    run,        \* which launch of the program is executing (1 or 2)
    pc,         \* position of the program
    self,       \* the controller object's attributes
    rng,        \* state of the process-global generator of module random
    commands,   \* local list of get_trial_initialization_commands
    draws,      \* history: raw generator outputs consumed in this trial
    sent,       \* directives the engine has received in this trial
    resp,       \* the engine's response to the last communicate call
    frame,      \* frame counter of the trial loop
    done,       \* the trial loop's done flag
    static,     \* names of the datasets created in the static group, in order
    stages,     \* history: stages entered in this trial, in order
    finished,   \* per launch, the trial indices already executed
    hist        \* per launch and trial index, what the trial resolved

vars == <<argv, args, run, pc, self, rng, commands, draws, sent, resp, frame,
          done,
          static, stages, finished, hist>>

----------------------------------------------------------------------------
(* Bounds of the model *)

\* number of trial indices of a run (num of RC.run)
NumTrials == 2

----------------------------------------------------------------------------
(* Values *)

None == "None"

Unset == "unset"

\* a category filter of None (no restriction), as a value of the same kind
\* as the sets of category labels
NoCategories == {None}

Trials == 0 .. (NumTrials - 1)

\* the two launches of the program that are compared
Runs == {1, 2}

\* base seeds given on the command line
Seeds == {0, 1}

\* generator states a freshly started process may have
Entropy == {5, 12}

\* responses of the engine to one communicate call
Responses == {"resp_moving", "resp_sleeping"}

\* class attribute MAX_TRIALS inherited from the base controller
MAX_TRIALS == 1000

----------------------------------------------------------------------------
(* The model libraries (tdw_physics.util.MODEL_LIBRARIES) *)

Rec(n, c, l, d) == [name |-> n, wcategory |-> c, lib |-> l, do_not_use |-> d]

MODEL_LIBRARIES ==
    << Rec("bowl",    "bowl",      "models_full.json",    FALSE),
       Rec("cup",     "cup",       "models_full.json",    FALSE),
       Rec("fish",    "toy",       "models_full.json",    FALSE),
       Rec("broken",  "cup",       "models_full.json",    TRUE),
       Rec("lobster", "toy",       "models_special.json", FALSE),
       Rec("cube",    "primitive", "models_flex.json",    FALSE),
       Rec("sofa",    "furniture", "models_core.json",    FALSE) >>

LibraryKeys == {MODEL_LIBRARIES[i].lib : i \in 1 .. Len(MODEL_LIBRARIES)}

NamesOf(lib, skip_unusable) ==
    {MODEL_LIBRARIES[i].name : i \in
        {j \in 1 .. Len(MODEL_LIBRARIES) :
            /\ MODEL_LIBRARIES[j].lib = lib
            /\ (skip_unusable => ~MODEL_LIBRARIES[j].do_not_use)}}

\* relations.py: names of the three libraries without the do_not_use records
ALL_NAMES ==
    NamesOf("models_full.json", TRUE) \cup NamesOf("models_special.json", TRUE)
        \cup NamesOf("models_flex.json", TRUE)

InSeq(x, s) == \E i \in 1 .. Len(s) : s[i] = x

\* [nm for nm in names if nm in ALL_NAMES]
RECURSIVE KeepKnown(_)
KeepKnown(names) ==
    IF names = <<>> THEN <<>>
    ELSE IF Head(names) \in ALL_NAMES
         THEN <<Head(names)>> \o KeepKnown(Tail(names))
         ELSE KeepKnown(Tail(names))

\* get_relational_args.postprocess on the three name lists
postprocess(a) ==
    [a EXCEPT !.container  = KeepKnown(a.container),
              !.target     = KeepKnown(a.target),
              !.distractor = KeepKnown(a.distractor)]

\* get_playroom_args.postprocess: the name lists are left as they are
playroom_postprocess(a) == [a EXCEPT !.no_moving_distractors = TRUE]

----------------------------------------------------------------------------
(* Type sets (RigidbodiesDataset.get_types, after the specification's      *)
(* filter_catalog: the records of the libraries whose name is requested and*)
(* whose category is allowed; an empty result is an EmptySelectionError)   *)

RECURSIVE FilterRecords(_, _, _, _)
FilterRecords(recs, olist, libraries, categories) ==
    IF recs = <<>> THEN <<>>
    ELSE LET r    == Head(recs)
             rest == FilterRecords(Tail(recs), olist, libraries, categories)
         IN IF /\ r.lib \in libraries
               /\ InSeq(r.name, olist)
               /\ (categories = NoCategories \/ r.wcategory \in categories)
            THEN <<r>> \o rest
            ELSE rest

get_types(olist, libraries, categories) ==
    LET tlist == FilterRecords(MODEL_LIBRARIES, olist, libraries, categories)
    IN [err |-> tlist = <<>>, val |-> tlist]

\* RelationArrangement.set_types with a category restriction (a variant)
set_types_restricted(olist) ==
    get_types(olist,
              {"models_full.json", "models_special.json", "models_flex.json"},
              {"bowl", "toy", "primitive"})

\* RelationArrangement.set_types
set_types(olist) ==
    get_types(olist,
              {"models_full.json", "models_special.json", "models_flex.json"},
              NoCategories)

\* RelationArrangement.set_container_types
set_container_types(olist) == set_types(olist)

\* RelationArrangement.set_target_types
set_target_types(olist) == set_types(olist)

\* RelationArrangement.set_distractor_types that keeps an empty selection
set_distractor_types_unchecked(olist) ==
    [err |-> FALSE, val |-> set_types(olist).val]

\* RelationArrangement.set_distractor_types
set_distractor_types(olist) == set_types(olist)

\* Playroom.set_probe_types
playroom_set_probe_types(olist, probe_categories) ==
    get_types(olist, LibraryKeys, probe_categories)

\* Playroom.set_target_types
playroom_set_target_types(olist, target_categories) ==
    get_types(olist, LibraryKeys, target_categories)

----------------------------------------------------------------------------
(* The command line *)

RelationArgs ==
    [cls        : {"RelationArrangement"},
     seed       : Seeds,
     random     : BOOLEAN,
     room       : {"tdw"},
     container  : {<<"bowl">>, <<"bowl", "cup">>, <<"broken">>},
     target     : {<<"fish", "nosuch">>, <<"nosuch">>},
     distractor : {<<"lobster">>, <<"nosuch">>},
     target_objects : {<<"cube">>},
     probe      : {<<"cube">>},
     target_categories : {NoCategories},
     probe_categories  : {NoCategories},
     cscale     : {<<1, 2>>},
     tscale     : {<<1, 2>>},
     dscale     : {<<1, 2>>},
     pscale     : {<<1, 1>>},
     zscale     : {<<1, 1>>},
     no_moving_distractors : {FALSE}]

PlayroomArgs ==
    [cls        : {"Playroom"},
     seed       : Seeds,
     random     : BOOLEAN,
     room       : {"box"},
     container  : {<<>>},
     target     : {<<"fish", "bowl", "sofa">>},
     distractor : {<<>>},
     target_objects : {<<>>},
     probe      : {<<"cube", "lobster">>},
     target_categories : {NoCategories, {"toy", "furniture"}},
     probe_categories  : {NoCategories, {"vehicle"}},
     cscale     : {<<1, 1>>},
     tscale     : {<<1, 2>>},
     dscale     : {<<1, 1>>},
     pscale     : {<<1, 2>>},
     zscale     : {<<2, 4>>},
     no_moving_distractors : {FALSE}]

\* attributes of a controller object before its constructor has run; attrs
\* holds the names of the attributes that have been assigned (hasattr),
\* nones the names of those whose value is None
NoController ==
    [attrs |-> {}, nones |-> {},
     probe_categories |-> Unset, target_categories |-> Unset,
     randomize |-> Unset, seed |-> Unset, room |-> Unset,
     _probe_types |-> Unset, _target_types |-> Unset,
     _container_types |-> Unset, _distractor_types |-> Unset,
     container_scale_range |-> Unset, target_scale_range |-> Unset,
     distractor_scale_range |-> Unset,
     probe_scale_range |-> Unset, zone_scale_range |-> Unset,
     container_material |-> Unset, target_material |-> Unset,
     distractor_material |-> Unset,
     _trial_num |-> Unset, trial_seed |-> Unset,
     object_ids |-> <<>>,
     zone_scale |-> Unset,
     container |-> Unset, container_id |-> Unset, container_scale |-> Unset,
     target |-> Unset, target_id |-> Unset, target_scale |-> Unset,
     probe |-> Unset, probe_id |-> Unset, probe_scale |-> Unset,
     _fixed_target |-> Unset,
     camera_position |-> Unset, camera_aim |-> Unset]

\* self.k = kv[k] for every k of kv, no kv[k] being None
Assign(obj, kv) ==
    [k \in DOMAIN obj |->
        IF k \in DOMAIN kv THEN kv[k]
        ELSE IF k = "attrs" THEN obj.attrs \cup DOMAIN kv
        ELSE IF k = "nones" THEN obj.nones \ DOMAIN kv
        ELSE obj[k]]

\* the attributes named in names hold None
MarkNone(obj, names) == [obj EXCEPT !.nones = @ \cup names]

\* self.k = None for every k of names
AssignNone(obj, names) ==
    MarkNone([k \in DOMAIN obj |->
                 IF k \in names THEN None
                 ELSE IF k = "attrs" THEN obj.attrs \cup names
                 ELSE obj[k]],
             names)

\* no trial recorded yet (an empty option; a recorded trial is <<record>>)
NoTrial == [t \in Trials |-> <<>>]

Init ==
    /\ argv \in RelationArgs \cup PlayroomArgs
    /\ args = argv
    /\ run = 1
    /\ pc = "args"
    /\ self = NoController
    /\ rng \in Entropy
    /\ commands = <<>>
    /\ draws = <<>>
    /\ sent = <<>>
    /\ resp = None
    /\ frame = 0
    /\ done = FALSE
    /\ static = <<>>
    /\ stages = <<>>
    /\ finished = [r \in Runs |-> {}]
    /\ hist = [r \in Runs |-> NoTrial]

----------------------------------------------------------------------------
(* Configuration: post-processing of the arguments and construction *)

\* args = postprocess(args) in get_relational_args / get_playroom_args
Postprocess ==
    /\ pc = "args"
    /\ args' = IF args.cls = "RelationArrangement"
               THEN postprocess(args)
               ELSE playroom_postprocess(args)
    /\ pc' = "postprocessed"
    /\ UNCHANGED <<argv, run, self, rng, commands, draws, sent, resp, frame, done,
                   static, stages, finished, hist>>

\* Playroom.__init__: the two category filters, then the base constructor,
\* which keeps the common arguments and sets the probe and target types
\* through the setters of the object's class
Playroom__init__(obj, a, target_setter_result) ==
    LET p == playroom_set_probe_types(a.probe, a.probe_categories)
        t == target_setter_result
        o1 == MarkNone(Assign(obj, [probe_categories |-> a.probe_categories,
                                    target_categories |-> a.target_categories]),
                       {k \in {"probe_categories", "target_categories"} :
                           a[k] = NoCategories})
    IN [err |-> p.err \/ t.err,
        val |-> Assign(o1, [randomize |-> a.random,
                            seed |-> a.seed,
                            room |-> a.room,
                            zone_scale_range |-> a.zscale,
                            target_scale_range |-> a.tscale,
                            probe_scale_range |-> a.pscale,
                            _probe_types |-> p.val,
                            _target_types |-> t.val])]

\* PC = Playroom(...)
ConstructPlayroom ==
    /\ pc = "postprocessed"
    /\ args.cls = "Playroom"
    /\ LET r == Playroom__init__(NoController, args,
                   playroom_set_target_types(args.target, args.target_categories))
       IN IF r.err
          THEN /\ pc' = "config_error"
               /\ UNCHANGED self
          ELSE /\ pc' = "ready"
               /\ self' = r.val
    /\ UNCHANGED <<argv, args, run, rng, commands, draws, sent, resp, frame, done,
                   static, stages, finished, hist>>

\* RelationArrangement.__init__
RelationArrangement__init__(obj, a) ==
    LET base == Playroom__init__(obj, a, set_target_types(a.target_objects))
        c == set_container_types(a.container)
        t == set_target_types(a.target)
        d == set_distractor_types(a.distractor)
    IN [err |-> base.err \/ c.err \/ t.err \/ d.err,
        val |-> AssignNone(
                    Assign(base.val,
                           [_container_types |-> c.val,
                            _target_types |-> t.val,
                            _distractor_types |-> d.val,
                            container_scale_range |-> a.cscale,
                            target_scale_range |-> a.tscale,
                            distractor_scale_range |-> a.dscale]),
                    {"container_material", "target_material",
                     "distractor_material"})]

\* RC = RelationArrangement(...)
ConstructRelation ==
    /\ pc = "postprocessed"
    /\ args.cls = "RelationArrangement"
    /\ LET r == RelationArrangement__init__(NoController, args)
       IN IF r.err
          THEN /\ pc' = "config_error"
               /\ UNCHANGED self
          ELSE /\ pc' = "ready"
               /\ self' = r.val
    /\ UNCHANGED <<argv, args, run, rng, commands, draws, sent, resp, frame, done,
                   static, stages, finished, hist>>

----------------------------------------------------------------------------
(* The generator of module random *)

\* one step of the generator
RngNext(s) == (5 * s + 3) % 16

\* random.seed(x): the state the generator is put in
random_seed(x) == (7 * x + 3) % 16

\* the next n outputs of the generator in state s
RECURSIVE Stream(_, _)
Stream(s, n) ==
    IF n = 0 THEN <<>> ELSE <<RngNext(s)>> \o Stream(RngNext(s), n - 1)

\* the state of the generator after n outputs
After(s, n) == IF n = 0 THEN s ELSE Stream(s, n)[n]

\* a uniform draw from the closed range, from generator output d
resolve_range(range, d) == range[1] + (d % (range[2] - range[1] + 1))

----------------------------------------------------------------------------
(* Per-trial resolution *)

\* the value given to self.trial_seed, with seed and index exchanged
trial_seed_swapped(randomize, seed, trial_num) ==
    IF ~randomize THEN (MAX_TRIALS * trial_num) + seed ELSE -1

\* the value given to self.trial_seed, without the trial index
trial_seed_no_index(randomize, seed, trial_num) ==
    IF ~randomize THEN MAX_TRIALS * seed ELSE -1

\* the value given to self.trial_seed, from the count of trials executed
trial_seed_by_count(randomize, seed, trial_num) ==
    IF ~randomize THEN (MAX_TRIALS * seed) + Cardinality(finished[run]) ELSE -1

\* the value given to self.trial_seed
trial_seed_of(randomize, seed, trial_num) ==
    IF ~randomize THEN (MAX_TRIALS * seed) + trial_num ELSE -1

\* the generator left as it is whatever randomize says
seeded_rng_never(randomize, trial_seed, s) == s

\* the generator after the randomization block: reseeded unless randomize
seeded_rng(randomize, trial_seed, s) ==
    IF ~randomize THEN random_seed(trial_seed) ELSE s

\* random_primitive(object_types, scale=1.0, color=None, add_data=False):
\* a uniform choice of the record, a random colour, the next object id
random_primitive(object_types, obj, d1, d2) ==
    [record |-> object_types[(d1 % Len(object_types)) + 1],
     data   |-> [id |-> Len(obj.object_ids) + 1, color |-> d2 % 3]]

\* rescale_record_to_size(record, scale_range)
rescale_record_to_size(record, scale_range, d) == resolve_range(scale_range, d)

\* add_primitive(..., add_data=True): registers the object, returns its
\* directives (heights and masses in tenths)
add_primitive(obj, role, record, position, scale, material, color, mass, scale_mass, o_id, make_kinematic, apply_texture) ==
    [obj  |-> [obj EXCEPT !.object_ids = Append(@, o_id)],
     cmds |-> << [type |-> "add_object", role |-> role, name |-> record.name,
                  id |-> o_id, position |-> position, scale |-> scale,
                  color |-> color, mass |-> mass, scale_mass |-> scale_mass,
                  kinematic |-> make_kinematic,
                  apply_texture |-> apply_texture] >>]

\* Dominoes._place_target_zone
_place_target_zone(obj, s) ==
    LET d     == Stream(s, 1)
        scale == resolve_range(obj.zone_scale_range, d[1])
        id    == Len(obj.object_ids) + 1
        o1    == Assign(obj, [zone_scale |-> scale])
    IN [obj  |-> [o1 EXCEPT !.object_ids = Append(@, id)],
        cmds |-> << [type |-> "add_object", role |-> "zone", name |-> "cube",
                     id |-> id, scale |-> scale] >>,
        n    |-> 1]

\* RelationArrangement._place_container that samples the container only when
\* none is stored on the object yet
_place_container_kept(obj, s) ==
    LET d     == Stream(s, 3)
        rp    == random_primitive(obj._container_types, obj, d[1], d[2])
        rec   == IF "container" \in obj.attrs THEN obj.container ELSE rp.record
        scale == rescale_record_to_size(rec, obj.container_scale_range, d[3])
        o1    == Assign(obj, [container |-> rec,
                              container_id |-> rp.data.id,
                              container_scale |-> scale])
        ap    == add_primitive(o1, "container", o1.container, 0, o1.container_scale,
                               o1.container_material, rp.data.color, 50, TRUE,
                               o1.container_id, TRUE,
                               o1.container_material # None)
    IN [obj |-> ap.obj, cmds |-> ap.cmds, n |-> 3]

\* RelationArrangement._place_container
_place_container(obj, s) ==
    LET d     == Stream(s, 3)
        rp    == random_primitive(obj._container_types, obj, d[1], d[2])
        scale == rescale_record_to_size(rp.record, obj.container_scale_range, d[3])
        o1    == Assign(obj, [container |-> rp.record,
                              container_id |-> rp.data.id,
                              container_scale |-> scale])
        ap    == add_primitive(o1, "container", o1.container, 0, o1.container_scale,
                               o1.container_material, rp.data.color, 50, TRUE,
                               o1.container_id, TRUE,
                               o1.container_material # None)
    IN [obj |-> ap.obj, cmds |-> ap.cmds, n |-> 3]

\* RelationArrangement._place_target_object that rescales the target only when
\* no target scale is stored on the object yet
_place_target_object_kept_scale(obj, s) ==
    LET d     == Stream(s, 3)
        rp    == random_primitive(obj._target_types, obj, d[1], d[2])
        scale == IF "target_scale" \in obj.attrs THEN obj.target_scale
                 ELSE rescale_record_to_size(rp.record, obj.target_scale_range, d[3])
        o1    == Assign(obj, [target |-> rp.record,
                              target_id |-> rp.data.id,
                              target_scale |-> scale])
        ap    == add_primitive(o1, "target", o1.target, 5, o1.target_scale,
                               o1.target_material, rp.data.color, 25, FALSE,
                               o1.target_id, FALSE,
                               o1.target_material # None)
    IN [obj |-> ap.obj, cmds |-> ap.cmds, n |-> 3]

\* RelationArrangement._place_target_object
_place_target_object(obj, s) ==
    LET d     == Stream(s, 3)
        rp    == random_primitive(obj._target_types, obj, d[1], d[2])
        scale == rescale_record_to_size(rp.record, obj.target_scale_range, d[3])
        o1    == Assign(obj, [target |-> rp.record,
                              target_id |-> rp.data.id,
                              target_scale |-> scale])
        ap    == add_primitive(o1, "target", o1.target, 5, o1.target_scale,
                               o1.target_material, rp.data.color, 25, FALSE,
                               o1.target_id, FALSE,
                               o1.target_material # None)
    IN [obj |-> ap.obj, cmds |-> ap.cmds, n |-> 3]

\* get_random_avatar_position: radius, angle and height drawn independently
get_random_avatar_position(d1, d2, d3) ==
    [radius |-> resolve_range(<<1, 3>>, d1),
     angle  |-> (90 * d2) % 360,
     y      |-> resolve_range(<<1, 2>>, d3)]

\* RelationArrangement._place_camera
_place_camera(obj, s) ==
    LET d     == Stream(s, 3)
        a_pos == get_random_avatar_position(d[1], d[2], d[3])
        o1    == Assign(obj, [camera_position |-> a_pos, camera_aim |-> 0])
    IN [obj  |-> o1,
        cmds |-> << [type |-> "teleport_avatar_to", role |-> "camera",
                     position |-> o1.camera_position],
                    [type |-> "look_at_position", role |-> "camera",
                     position |-> o1.camera_aim],
                    [type |-> "set_focus_distance", role |-> "camera",
                     focus_distance |-> a_pos.radius] >>,
        n    |-> 3]

\* RelationArrangement._place_distractor
_place_distractor(obj, s) == [obj |-> obj, cmds |-> <<>>, n |-> 0]

\* Playroom._place_target_object
playroom_place_target_object(obj, s) ==
    LET o0    == Assign(obj, [_fixed_target |-> TRUE])
        d     == Stream(s, 3)
        rp    == random_primitive(o0._target_types, o0, d[1], d[2])
        scale == rescale_record_to_size(rp.record, o0.target_scale_range, d[3])
        o1    == Assign(o0, [target |-> rp.record,
                             target_id |-> rp.data.id,
                             target_scale |-> scale])
        ap    == add_primitive(o1, "target", o1.target, 0, o1.target_scale,
                               None, rp.data.color, 25, FALSE,
                               o1.target_id, FALSE, FALSE)
    IN [obj |-> ap.obj, cmds |-> ap.cmds, n |-> 3]

\* Playroom._place_and_push_probe_object
playroom_place_and_push_probe_object(obj, s) ==
    LET d     == Stream(s, 3)
        rp    == random_primitive(obj._probe_types, obj, d[1], d[2])
        scale == rescale_record_to_size(rp.record, obj.probe_scale_range, d[3])
        o1    == Assign(obj, [probe |-> rp.record,
                              probe_id |-> rp.data.id,
                              probe_scale |-> scale])
        ap    == add_primitive(o1, "probe", o1.probe, 0, o1.probe_scale,
                               None, rp.data.color, 25, FALSE,
                               o1.probe_id, FALSE, FALSE)
    IN [obj |-> ap.obj, cmds |-> ap.cmds, n |-> 3]

\* RelationArrangement.is_done with the engine's response consulted
relation_is_done_on_response(response, fr) ==
    fr > 90 \/ response = "resp_sleeping"

\* RelationArrangement.is_done
relation_is_done(response, fr) == fr > 90

\* Playroom.is_done
playroom_is_done(response, fr) == fr > 150

\* self.is_done(resp, frame) of the controller's class
is_done(cls, response, fr) ==
    IF cls = "RelationArrangement" THEN relation_is_done(response, fr)
    ELSE playroom_is_done(response, fr)

\* get_per_frame_commands that pushes the target while the engine reports
\* motion
get_per_frame_commands_push(response, fr) ==
    IF response = "resp_moving"
    THEN << [type |-> "apply_force_to_object", role |-> "target", frame |-> fr] >>
    ELSE <<>>

\* RelationArrangement.get_per_frame_commands
get_per_frame_commands(response, fr) == <<>>

----------------------------------------------------------------------------
(* The trial loop and the steps of get_trial_initialization_commands *)

\* trial(): clear_static_data, self._trial_num = trial_num.  A run takes the
\* trial indices in increasing order and may leave any of them out.
StartTrial ==
    /\ pc = "ready"
    /\ \E k \in Trials :
          /\ \A j \in finished[run] : j < k
          /\ self' = Assign([self EXCEPT !.object_ids = <<>>], [_trial_num |-> k])
    /\ commands' = <<>>
    /\ draws' = <<>>
    /\ sent' = <<>>
    /\ resp' = None
    /\ frame' = 0
    /\ done' = FALSE
    /\ static' = <<>>
    /\ stages' = <<"INIT">>
    /\ pc' = "seed"
    /\ UNCHANGED <<argv, args, run, rng, finished, hist>>

\* get_trial_initialization_commands: commands = [] and the randomization block
SeedStep ==
    /\ pc = "seed"
    /\ args.cls = "RelationArrangement"
    /\ LET ts == trial_seed_of(self.randomize, self.seed, self._trial_num)
       IN /\ self' = Assign(self, [trial_seed |-> ts])
          /\ rng' = seeded_rng(self.randomize, ts, rng)
    /\ commands' = <<>>
    /\ pc' = "zone"
    /\ UNCHANGED <<argv, args, run, draws, sent, resp, frame, done, static, stages,
                   finished, hist>>

\* the result r of one placement method put in front of the list
ExtendFront(r, stage, next_pc) ==
    /\ self' = r.obj
    /\ commands' = r.cmds \o commands
    /\ draws' = draws \o Stream(rng, r.n)
    /\ rng' = After(rng, r.n)
    /\ stages' = Append(stages, stage)
    /\ pc' = next_pc
    /\ UNCHANGED <<argv, args, run, sent, resp, frame, done, static, finished,
                   hist>>

\* commands.extend(r.cmds) for the result r of one placement method
Extend(r, stage, next_pc) ==
    /\ self' = r.obj
    /\ commands' = commands \o r.cmds
    /\ draws' = draws \o Stream(rng, r.n)
    /\ rng' = After(rng, r.n)
    /\ stages' = Append(stages, stage)
    /\ pc' = next_pc
    /\ UNCHANGED <<argv, args, run, sent, resp, frame, done, static, finished, hist>>

\* a placement method raises: the exception leaves the handler, whose local
\* list is lost
Raise ==
    /\ commands' = <<>>
    /\ pc' = "trial_error"
    /\ UNCHANGED <<argv, args, run, self, rng, draws, sent, resp, frame, done, static,
                   stages, finished, hist>>

\* commands.extend(self._place_target_zone())
PlaceZone ==
    /\ pc = "zone"
    /\ Extend(_place_target_zone(self, rng), "PLACE_ZONE", "container")

\* the container placement followed directly by the camera placement
PlaceContainerSkipTarget ==
    /\ pc = "container"
    /\ IF Len(self._container_types) = 0
       THEN Raise
       ELSE Extend(_place_container(self, rng), "PLACE_CONTAINER", "camera")

\* commands.extend(self._place_container())
PlaceContainer ==
    /\ pc = "container"
    /\ IF Len(self._container_types) = 0
       THEN Raise
       ELSE Extend(_place_container(self, rng), "PLACE_CONTAINER", "target")

\* commands.extend(self._place_target_object())
PlaceTarget ==
    /\ pc = "target"
    /\ IF Len(self._target_types) = 0
       THEN Raise
       ELSE Extend(_place_target_object(self, rng), "PLACE_TARGET", "camera")

\* commands.extend(self._place_camera())
PlaceCamera ==
    /\ pc = "camera"
    /\ Extend(_place_camera(self, rng), "PLACE_CAMERA", "distractor")

\* commands.extend(self._place_distractor()); return commands
PlaceDistractor ==
    /\ pc = "distractor"
    /\ Extend(_place_distractor(self, rng), "PLACE_DISTRACTOR", "emit")

\* Playroom: the inherited get_trial_initialization_commands, as one step:
\* trial seed, zone, target, probe, camera
PlayroomTrialInit ==
    /\ pc = "seed"
    /\ args.cls = "Playroom"
    /\ LET ts == trial_seed_of(self.randomize, self.seed, self._trial_num)
           s0 == seeded_rng(self.randomize, ts, rng)
           o0 == Assign(self, [trial_seed |-> ts])
           z  == _place_target_zone(o0, s0)
           s1 == After(s0, z.n)
           t  == playroom_place_target_object(z.obj, s1)
           s2 == After(s1, t.n)
           p  == playroom_place_and_push_probe_object(t.obj, s2)
           s3 == After(s2, p.n)
           c  == _place_camera(p.obj, s3)
           n  == z.n + t.n + p.n + c.n
       IN /\ self' = c.obj
          /\ commands' = z.cmds \o t.cmds \o p.cmds \o c.cmds
          /\ draws' = Stream(s0, n)
          /\ rng' = After(s0, n)
    /\ stages' = stages \o <<"PLACE_ZONE", "PLACE_TARGET", "PLACE_PROBE",
                             "PLACE_CAMERA">>
    /\ pc' = "emit"
    /\ UNCHANGED <<argv, args, run, sent, resp, frame, done, static, finished, hist>>

\* trial(): resp = self.communicate(commands)
SendInitialization ==
    /\ pc = "emit"
    /\ sent' = sent \o commands
    /\ resp' \in Responses
    /\ commands' = <<>>
    /\ stages' = Append(stages, "RUN_PHYSICS_FRAMES")
    /\ pc' = "frames"
    /\ UNCHANGED <<argv, args, run, self, rng, draws, frame, done, static,
                   finished, hist>>

\* trial(): one turn of the loop: frame += 1, the per-frame commands are
\* sent, the response is read, done = done or self.is_done(resp, frame)
FrameStep ==
    /\ pc = "frames"
    /\ ~done
    /\ frame' = frame + 1
    /\ sent' = sent \o get_per_frame_commands(resp, frame')
    /\ resp' \in Responses
    /\ done' = (done \/ is_done(args.cls, resp', frame'))
    /\ pc' = IF done' THEN "static" ELSE "frames"
    /\ UNCHANGED <<argv, args, run, self, rng, commands, draws, static, stages,
                   finished, hist>>

\* the outcome of static_group.create_dataset(name, data=self.attr): reading
\* an attribute that was never assigned raises AttributeError, and h5py
\* raises TypeError for data that is None
write_outcome(obj, attr) ==
    IF attr \notin obj.attrs THEN "AttributeError"
    ELSE IF attr \in obj.nones THEN "TypeError"
    ELSE "ok"

\* one try block of _write_static_data: the dataset is created unless the
\* write raises AttributeError or TypeError, which the block swallows
create_dataset(grp, obj, name, attr) ==
    IF write_outcome(obj, attr) \in {"AttributeError", "TypeError"}
    THEN grp
    ELSE Append(grp, name)

\* _write_static_data with the five writes in one try block: the first
\* failing write ends the method
_write_static_data_one_try(grp, obj) ==
    LET ok(a) == write_outcome(obj, a) = "ok"
        g1 == IF ok("room") THEN Append(grp, "room") ELSE grp
        g2 == IF Len(g1) = Len(grp) + 1 /\ ok("seed")
              THEN Append(g1, "seed") ELSE g1
        g3 == IF Len(g2) = Len(grp) + 2 /\ ok("randomize")
              THEN Append(g2, "randomize") ELSE g2
        g4 == IF Len(g3) = Len(grp) + 3 /\ ok("trial_seed")
              THEN Append(g3, "trial_seed") ELSE g3
    IN IF Len(g4) = Len(grp) + 4 /\ ok("_trial_num")
       THEN Append(g4, "trial_num") ELSE g4

\* RelationArrangement._write_static_data
_write_static_data(grp, obj) ==
    LET g1 == create_dataset(grp, obj, "room", "room")
        g2 == create_dataset(g1, obj, "seed", "seed")
        g3 == create_dataset(g2, obj, "randomize", "randomize")
        g4 == create_dataset(g3, obj, "trial_seed", "trial_seed")
    IN create_dataset(g4, obj, "trial_num", "_trial_num")

\* trial(): self._write_static_data(static_group)
WriteStaticData ==
    /\ pc = "static"
    /\ static' = _write_static_data(static, self)
    /\ stages' = Append(stages, "WRITE_STATIC_DATA")
    /\ pc' = "written"
    /\ UNCHANGED <<argv, args, run, self, rng, commands, draws, sent, resp, frame,
                   done, finished, hist>>

\* what a trial resolved
SceneOf(obj) ==
    [container |-> obj.container, container_scale |-> obj.container_scale,
     container_id |-> obj.container_id,
     target |-> obj.target, target_scale |-> obj.target_scale,
     target_id |-> obj.target_id,
     probe |-> obj.probe, probe_scale |-> obj.probe_scale,
     zone_scale |-> obj.zone_scale,
     camera_position |-> obj.camera_position, camera_aim |-> obj.camera_aim]

\* trial() returns; the trial's file exists
EndTrial ==
    /\ pc = "written"
    /\ finished' = [finished EXCEPT ![run] = @ \cup {self._trial_num}]
    /\ hist' = [hist EXCEPT ![run][self._trial_num] =
                   <<[trial_seed |-> self.trial_seed, scene |-> SceneOf(self),
                      directives |-> sent]>>]
    /\ stages' = Append(stages, "DONE")
    /\ pc' = "ready"
    /\ UNCHANGED <<argv, args, run, self, rng, commands, draws, sent, resp, frame,
                   done, static>>

\* the program ends and is launched again with the same command line
Relaunch ==
    /\ pc = "ready"
    /\ run + 1 \in Runs
    /\ run' = run + 1
    /\ args' = argv
    /\ self' = NoController
    /\ rng' \in Entropy
    /\ commands' = <<>>
    /\ draws' = <<>>
    /\ sent' = <<>>
    /\ resp' = None
    /\ frame' = 0
    /\ done' = FALSE
    /\ static' = <<>>
    /\ stages' = <<>>
    /\ pc' = "args"
    /\ UNCHANGED <<argv, finished, hist>>

Next ==
    \/ Postprocess
    \/ ConstructPlayroom
    \/ ConstructRelation
    \/ StartTrial
    \/ SeedStep
    \/ PlaceZone
    \/ PlaceContainer
    \/ PlaceTarget
    \/ PlaceCamera
    \/ PlaceDistractor
    \/ PlayroomTrialInit
    \/ SendInitialization
    \/ FrameStep
    \/ WriteStaticData
    \/ EndTrial
    \/ Relaunch

Spec == Init /\ [][Next]_vars

----------------------------------------------------------------------------
(* Properties *)

Relation == argv.cls = "RelationArrangement"

\* positions inside get_trial_initialization_commands after the
\* randomization block
HandlerPcs == {"zone", "container", "target", "camera", "distractor", "emit"}

\* positions of a trial after the randomization block
TrialPcs == HandlerPcs \cup {"frames", "static", "written"}

\* positions at which the controller has been constructed
ConstructedPcs == TrialPcs \cup {"ready", "seed", "trial_error"}

\* C1: in every trial of RelationArrangement, once the randomization block
\* has run, trial_seed is MAX_TRIALS * seed + _trial_num when randomize is
\* false and -1 when it is true; before the first placement step no
\* directive exists and no draw was made, and the generator is in the state
\* random.seed(trial_seed) gives when randomize is false.
C1_SeedState ==
    (Relation /\ pc \in HandlerPcs) =>
        /\ self.trial_seed = IF self.randomize THEN -1
                             ELSE (MAX_TRIALS * self.seed) + self._trial_num
        /\ pc = "zone" =>
              /\ commands = <<>>
              /\ draws = <<>>
              /\ ~self.randomize => rng = random_seed(self.trial_seed)

\* C1: the randomization block leaves the generator as it is when randomize
\* is true
C1_NoReseed ==
    (Relation /\ pc = "seed" /\ pc' = "zone" /\ self.randomize) => rng' = rng

\* C1: the two parts together
C1_TrialSeed == []C1_SeedState /\ [][C1_NoReseed]_vars

\* C1 witness: trial 1 of base seed 1, after trial 0, just past the block
C1_Witness ==
    /\ Relation
    /\ pc = "zone"
    /\ finished[run] = {0}
    /\ ~self.randomize
    /\ self.seed = 1
    /\ self._trial_num = 1
    /\ self.trial_seed = 1001

RoleRank(role) ==
    CASE role = "zone" -> 1
      [] role = "container" -> 2
      [] role = "target" -> 3
      [] role = "camera" -> 4
      [] role = "distractor" -> 5
      [] OTHER -> 0

RoleOrdered(cmds) ==
    \A i \in 1 .. Len(cmds) : \A j \in 1 .. Len(cmds) :
        i < j => RoleRank(cmds[i].role) <= RoleRank(cmds[j].role)

StageBefore(a, b) ==
    \A j \in 1 .. Len(stages) :
        stages[j] = b => \E i \in 1 .. (j - 1) : stages[i] = a

\* C2: in every trial of RelationArrangement the directives, as collected by
\* get_trial_initialization_commands and as received by the engine, are in
\* the order zone, container, target, camera, distractor; the distractor
\* placement, which returns no directive, is called after the camera
\* placement.
C2_DirectiveOrder ==
    (Relation /\ pc \in TrialPcs) =>
        /\ RoleOrdered(commands)
        /\ RoleOrdered(sent)
        /\ StageBefore("PLACE_CAMERA", "PLACE_DISTRACTOR")

\* C2 witness: the engine has received zone, container, target and the three
\* camera directives
C2_Witness ==
    /\ Relation
    /\ pc = "frames"
    /\ Len(sent) = 6
    /\ {sent[i].role : i \in 1 .. Len(sent)} =
          {"zone", "container", "target", "camera"}

\* C3: with randomize false, trial k of the first launch and trial k of the
\* second launch have the same trial seed, resolve the same scene and send
\* the same directives, for every k both launches executed.
C3_Determinism ==
    ~argv.random =>
        \A k \in Trials :
            (hist[1][k] # <<>> /\ hist[2][k] # <<>>) => hist[1][k] = hist[2][k]

\* C3 witness: trial 1 was executed after trial 0 in the first launch and as
\* the only trial in the second
C3_Witness ==
    /\ ~argv.random
    /\ Relation
    /\ finished[1] = {0, 1}
    /\ finished[2] = {1}
    /\ hist[2][1] # <<>>

\* C4: with randomize false, the generator outputs consumed in a trial are
\* the first outputs of a generator seeded with MAX_TRIALS * seed + k, and
\* the generator is in the state that follows them, whichever trials were
\* executed before.
C4_TrialScoped ==
    (pc \in TrialPcs /\ ~self.randomize) =>
        LET s0 == random_seed((MAX_TRIALS * self.seed) + self._trial_num)
        IN /\ draws = Stream(s0, Len(draws))
           /\ rng = After(s0, Len(draws))

\* C4 witness: the handler of trial 1 has made its ten draws after trial 0
\* was executed in the same launch
C4_Witness ==
    /\ Relation
    /\ pc = "emit"
    /\ ~self.randomize
    /\ finished[run] = {0}
    /\ self._trial_num = 1
    /\ Len(draws) = 10

\* C5: with randomize false, two different trial indices of one launch have
\* different trial seeds.
C5_DistinctSeeds ==
    ~argv.random =>
        \A r \in Runs : \A i \in Trials : \A j \in Trials :
            (i # j /\ hist[r][i] # <<>> /\ hist[r][j] # <<>>) =>
                hist[r][i][1].trial_seed # hist[r][j][1].trial_seed

\* C5 witness: trials 0 and 1 of one launch have both been executed
C5_Witness ==
    /\ ~argv.random
    /\ hist[1][0] # <<>>
    /\ hist[1][1] # <<>>

AnyEmpty(a) == a.container = <<>> \/ a.target = <<>> \/ a.distractor = <<>>

\* C7: a RelationArrangement that has been constructed has non-empty
\* container, target and distractor type sets; when post-processing leaves
\* no name in one of the three lists the program gets no further than the
\* failed construction.
C7_NonEmptyTypes ==
    Relation =>
        /\ pc \in ConstructedPcs =>
              /\ Len(self._container_types) > 0
              /\ Len(self._target_types) > 0
              /\ Len(self._distractor_types) > 0
        /\ (pc # "args" /\ AnyEmpty(args)) =>
              pc \in {"postprocessed", "config_error"}

\* C7 witness: the only requested container is unusable, post-processing
\* left no container name, and construction has failed
C7_Witness ==
    /\ Relation
    /\ pc = "config_error"
    /\ argv.container = <<"broken">>
    /\ args.container = <<>>

\* the records of the libraries whose name is requested
RECURSIVE NameFiltered(_, _, _)
NameFiltered(recs, olist, libraries) ==
    IF recs = <<>> THEN <<>>
    ELSE IF Head(recs).lib \in libraries /\ InSeq(Head(recs).name, olist)
         THEN <<Head(recs)>> \o NameFiltered(Tail(recs), olist, libraries)
         ELSE NameFiltered(Tail(recs), olist, libraries)

RelationLibraries ==
    {"models_full.json", "models_special.json", "models_flex.json"}

\* C8: every type set of a constructed RelationArrangement is exactly the
\* name-filtered set of its three libraries, and a Playroom probe or target
\* type set whose category filter is None is exactly the name-filtered set
\* of all libraries.
C8_NoneIsNoRestriction ==
    pc \in ConstructedPcs =>
        IF Relation
        THEN /\ self._container_types =
                   NameFiltered(MODEL_LIBRARIES, args.container, RelationLibraries)
             /\ self._target_types =
                   NameFiltered(MODEL_LIBRARIES, args.target, RelationLibraries)
             /\ self._distractor_types =
                   NameFiltered(MODEL_LIBRARIES, args.distractor, RelationLibraries)
        ELSE /\ self.probe_categories = NoCategories =>
                   self._probe_types =
                       NameFiltered(MODEL_LIBRARIES, args.probe, LibraryKeys)
             /\ self.target_categories = NoCategories =>
                   self._target_types =
                       NameFiltered(MODEL_LIBRARIES, args.target, LibraryKeys)

\* C8 witness: a Playroom constructed with both filters None holds all three
\* requested targets and both requested probes
C8_Witness ==
    /\ ~Relation
    /\ pc = "ready"
    /\ self.probe_categories = NoCategories
    /\ self.target_categories = NoCategories
    /\ Len(self._target_types) = 3
    /\ Len(self._probe_types) = 2

\* the stages of a RelationArrangement trial, in the order of the code
RelationStages ==
    <<"INIT", "PLACE_ZONE", "PLACE_CONTAINER", "PLACE_TARGET", "PLACE_CAMERA",
      "PLACE_DISTRACTOR", "RUN_PHYSICS_FRAMES", "WRITE_STATIC_DATA", "DONE">>

\* the rank of a stage in the order INIT, PLACE_ZONE, PLACE_OBJECTS,
\* PLACE_CAMERA, RUN_PHYSICS_FRAMES, WRITE_STATIC_DATA, DONE
ClaimedRank(stage) ==
    CASE stage = "INIT" -> 0
      [] stage = "PLACE_ZONE" -> 1
      [] stage \in {"PLACE_CONTAINER", "PLACE_TARGET", "PLACE_PROBE",
                    "PLACE_DISTRACTOR"} -> 2
      [] stage = "PLACE_CAMERA" -> 3
      [] stage = "RUN_PHYSICS_FRAMES" -> 4
      [] stage = "WRITE_STATIC_DATA" -> 5
      [] OTHER -> 6

\* C9 as claimed: the stages of a trial are entered in the order INIT,
\* PLACE_ZONE, PLACE_OBJECTS, PLACE_CAMERA, RUN_PHYSICS_FRAMES,
\* WRITE_STATIC_DATA, DONE, every object placement (distractors included)
\* coming after the zone and before the camera.
C9_AsClaimed ==
    Relation =>
        \A i \in 1 .. Len(stages) : \A j \in 1 .. Len(stages) :
            i < j => ClaimedRank(stages[i]) <= ClaimedRank(stages[j])

\* C9 amended: the stages of a RelationArrangement trial are entered in the
\* order INIT, PLACE_ZONE, container, target, PLACE_CAMERA, distractor,
\* RUN_PHYSICS_FRAMES, WRITE_STATIC_DATA, DONE, none skipped and none
\* repeated: container and target come after the zone and before the
\* camera, the distractor placement comes after the camera.
C9_StageOrder ==
    Relation =>
        /\ Len(stages) <= Len(RelationStages)
        /\ \A i \in 1 .. Len(stages) : stages[i] = RelationStages[i]

\* C9 witness: a RelationArrangement trial has gone through all its stages
C9_Witness ==
    /\ Relation
    /\ pc = "ready"
    /\ Len(stages) = 9
    /\ stages[9] = "DONE"

\* last frame of the physics stage of RelationArrangement
RelationFrames == 90

\* last frame of the physics stage of Playroom
PlayroomFrames == 150

FrameLimit == IF Relation THEN RelationFrames ELSE PlayroomFrames

\* C10: whatever the engine responds, the trial loop is in its physics
\* stage exactly while frame <= 90 (RelationArrangement) or frame <= 150
\* (Playroom) and leaves it at the first frame above that number.
C10_FrameOnly ==
    /\ pc = "frames" => (~done /\ frame <= FrameLimit)
    /\ pc \in {"static", "written"} => (done /\ frame = FrameLimit + 1)

\* C10: the above, and every trial whose loop keeps turning leaves the
\* physics stage
C10_FixedLength == []C10_FrameOnly /\ ((pc = "frames") ~> (pc = "static"))

\* C10 witness: a RelationArrangement trial has left the physics stage at
\* frame 91 although the engine's last response reports motion
C10_Witness ==
    /\ Relation
    /\ pc = "static"
    /\ frame = 91
    /\ resp = "resp_moving"

\* the command lines of the specification with fairness: base seed 1 and,
\* for RelationArrangement, the two-container request
FrameArgs ==
    {a \in RelationArgs \cup PlayroomArgs :
        /\ a.seed = 1
        /\ a.cls = "RelationArrangement" => a.container = <<"bowl", "cup">>}

InitFrames == Init /\ argv \in FrameArgs

\* the trial loop keeps turning: frame increases by one per turn
FairSpec == InitFrames /\ [][Next]_vars /\ WF_vars(FrameStep)

\* the attributes a trial resolves and stores on the controller
TrialResolved ==
    {"trial_seed", "zone_scale", "container", "container_id", "container_scale",
     "target", "target_id", "target_scale", "probe", "probe_id", "probe_scale",
     "_fixed_target", "camera_position", "camera_aim"}

\* C12 as claimed: when a trial starts, nothing an earlier trial resolved is
\* stored on the controller, and the generator a trial draws from was seeded
\* in that trial (it is not in the state an earlier trial left it in).
C12_AsClaimed ==
    /\ pc = "seed" => self.attrs \cap TrialResolved = {}
    /\ (pc = "zone" /\ finished[run] # {}) => rng = random_seed(self.trial_seed)

\* the states of the generator
RngStates == {RngNext(s) : s \in 0 .. 15}

\* the state the generator was in before the draws of this trial
FirstState == CHOOSE s \in RngStates : Stream(s, Len(draws)) = draws

\* the controller as its constructor leaves it
FreshController ==
    IF Relation
    THEN RelationArrangement__init__(NoController, args).val
    ELSE Playroom__init__(NoController, args,
             playroom_set_target_types(args.target, args.target_categories)).val

\* the controller at the start of trial k, had no trial been executed before
FreshTrial(k) ==
    Assign(FreshController,
           [_trial_num |-> k,
            trial_seed |-> IF args.random THEN -1
                           ELSE (MAX_TRIALS * args.seed) + k])

\* the placements of a RelationArrangement trial on controller obj, the
\* generator being in state s
ResolveRelation(obj, s) ==
    LET z  == _place_target_zone(obj, s)
        s1 == After(s, z.n)
        c  == _place_container(z.obj, s1)
        s2 == After(s1, c.n)
        t  == _place_target_object(c.obj, s2)
        s3 == After(s2, t.n)
        a  == _place_camera(t.obj, s3)
        s4 == After(s3, a.n)
        d  == _place_distractor(a.obj, s4)
    IN [obj |-> d.obj, cmds |-> z.cmds \o c.cmds \o t.cmds \o a.cmds \o d.cmds]

\* the placements of a Playroom trial on controller obj, the generator being
\* in state s
ResolvePlayroom(obj, s) ==
    LET z  == _place_target_zone(obj, s)
        s1 == After(s, z.n)
        t  == playroom_place_target_object(z.obj, s1)
        s2 == After(s1, t.n)
        p  == playroom_place_and_push_probe_object(t.obj, s2)
        s3 == After(s2, p.n)
        a  == _place_camera(p.obj, s3)
    IN [obj |-> a.obj, cmds |-> z.cmds \o t.cmds \o p.cmds \o a.cmds]

\* C12 amended: what an earlier trial resolved stays stored on the
\* controller, but every such value is overwritten before it is read: once
\* a trial is resolved, the controller and the trial's directives are those
\* a freshly constructed controller yields from the trial index and the
\* state the generator was in at the trial's first draw.  (That state is the
\* one thing carried over, and only when randomize is true: see C4.)
C12_FreshResolution ==
    pc \in {"emit", "static", "written"} =>
        LET o0 == FreshTrial(self._trial_num)
            r  == IF Relation THEN ResolveRelation(o0, FirstState)
                  ELSE ResolvePlayroom(o0, FirstState)
        IN /\ self = r.obj
           /\ pc = "emit" => commands = r.cmds
           /\ pc # "emit" => sent = r.cmds

\* C12 witness: trial 1 has been resolved after trial 0 of the same launch,
\* whose container and target scale were different
C12_Witness ==
    /\ Relation
    /\ pc = "emit"
    /\ finished[run] = {0}
    /\ self._trial_num = 1
    /\ hist[run][0][1].scene.container # self.container
    /\ hist[run][0][1].scene.target_scale # self.target_scale

\* the type sets and scale ranges of a controller
ConfigOf(obj) ==
    <<obj._container_types, obj._target_types, obj._distractor_types,
      obj._probe_types, obj.container_scale_range, obj.target_scale_range,
      obj.distractor_scale_range, obj.probe_scale_range, obj.zone_scale_range>>

\* positions of a RelationArrangement trial at which the container is placed
ContainerPlacedPcs ==
    {"target", "camera", "distractor", "emit", "frames", "static", "written"}

\* C13: a constructed controller that has run no trial holds type sets and
\* scale ranges but no container and no target; at every later position the
\* type sets and scale ranges are still those the constructor set; and in
\* every RelationArrangement trial the container and the target are the
\* members of their type sets picked by this trial's own draws.
C13_ResampledPerTrial ==
    pc \in ConstructedPcs =>
        /\ ConfigOf(self) = ConfigOf(FreshController)
        /\ (pc = "ready" /\ finished[run] = {}) =>
               self.attrs \cap {"container", "target", "probe"} = {}
        /\ (Relation /\ pc \in ContainerPlacedPcs) =>
               self.container =
                   self._container_types[(draws[2] % Len(self._container_types)) + 1]
        /\ (Relation /\ pc \in ContainerPlacedPcs \ {"target"}) =>
               self.target =
                   self._target_types[(draws[5] % Len(self._target_types)) + 1]

\* C13 witness: two trials of one launch, with the same type sets, have
\* placed different containers
C13_Witness ==
    /\ Relation
    /\ pc = "ready"
    /\ Len(self._container_types) = 2
    /\ hist[run][0] # <<>>
    /\ hist[run][1] # <<>>
    /\ hist[run][0][1].scene.container # hist[run][1][1].scene.container

----------------------------------------------------------------------------
(* _write_static_data on its own *)

\* the attributes _write_static_data reads, in the order of its try blocks,
\* and the datasets it creates from them
StaticAttrs == <<"room", "seed", "randomize", "trial_seed", "_trial_num">>

StaticNames == <<"room", "seed", "randomize", "trial_seed", "trial_num">>

\* a value of each of the five attributes
StaticValue(attr) ==
    CASE attr = "room" -> "tdw"
      [] attr = "seed" -> 1
      [] attr = "randomize" -> FALSE
      [] attr = "trial_seed" -> MAX_TRIALS
      [] OTHER -> 0

\* what each of the five attributes may be when the method is called: never
\* assigned, assigned None, or assigned a value
AttrStates == {"absent", "none", "set"}

\* the controller whose five attributes are as st says
StaticObject(st) ==
    [k \in DOMAIN NoController |->
        IF k = "attrs"
        THEN {StaticAttrs[i] : i \in {j \in 1 .. 5 : st[j] # "absent"}}
        ELSE IF k = "nones"
        THEN {StaticAttrs[i] : i \in {j \in 1 .. 5 : st[j] = "none"}}
        ELSE IF \E i \in 1 .. 5 : StaticAttrs[i] = k /\ st[i] = "set"
        THEN StaticValue(k)
        ELSE IF \E i \in 1 .. 5 : StaticAttrs[i] = k /\ st[i] = "none"
        THEN None
        ELSE NoController[k]]

\* _write_static_data is about to be called with an empty static group on a
\* RelationArrangement whose five attributes are in any of their states
InitStatic ==
    /\ argv \in {a \in FrameArgs : a.cls = "RelationArrangement"}
    /\ args = postprocess(argv)
    /\ run = 1
    /\ pc = "static"
    /\ \E st \in [1 .. 5 -> AttrStates] : self = StaticObject(st)
    /\ rng \in Entropy
    /\ commands = <<>>
    /\ draws = <<>>
    /\ sent = <<>>
    /\ resp = None
    /\ frame = 0
    /\ done = TRUE
    /\ static = <<>>
    /\ stages = <<>>
    /\ finished = [r \in Runs |-> {}]
    /\ hist = [r \in Runs |-> NoTrial]

StaticSpec == InitStatic /\ [][WriteStaticData]_vars

\* the places of StaticAttrs whose write succeeds on the controller
Succeeding ==
    {i \in 1 .. 5 : StaticAttrs[i] \in self.attrs \ self.nones}

\* C14: when _write_static_data has returned, the static group holds the
\* dataset of exactly those of room, seed, randomize, trial_seed and
\* trial_num whose attribute exists and is not None, once each and in that
\* order: a failed write leaves its field absent and stops no later write.
C14_IndependentWrites ==
    pc = "written" =>
        /\ Len(static) = Cardinality(Succeeding)
        /\ \A i \in 1 .. 5 :
              i \in Succeeding <=> InSeq(StaticNames[i], static)
        /\ \A i \in 1 .. 5 : \A j \in 1 .. 5 :
              \A m \in 1 .. Len(static) : \A n \in 1 .. Len(static) :
                  (static[m] = StaticNames[i] /\ static[n] = StaticNames[j]
                       /\ m < n) => i < j

\* C14 witness: seed was never assigned and trial_seed is None; room,
\* randomize and trial_num have been written all the same
C14_Witness ==
    /\ pc = "written"
    /\ "seed" \notin self.attrs
    /\ "trial_seed" \in self.nones
    /\ static = <<"room", "randomize", "trial_num">>

\* C15: in a RelationArrangement trial nothing has reached the engine before
\* get_trial_initialization_commands has returned, and the directives the
\* engine holds during and after the physics frames are the ones that
\* handler returned.
C15_AllBeforeFrames ==
    Relation =>
        /\ pc \in HandlerPcs \cup {"seed"} => sent = <<>>
        /\ pc \in {"frames", "static", "written"} =>
               sent = ResolveRelation(FreshTrial(self._trial_num), FirstState).cmds

\* C15: a turn of the physics-frame loop of RelationArrangement, whatever
\* the frame and the engine's response, sends no directive and changes
\* neither the controller nor the generator.
C15_FrameQuiet ==
    (Relation /\ pc = "frames") =>
        /\ sent' = sent
        /\ self' = self
        /\ rng' = rng
        /\ commands' = commands

\* C15: the two parts together
C15_NoFrameDirectives == []C15_AllBeforeFrames /\ [][C15_FrameQuiet]_vars

\* C15 witness: forty physics frames into a RelationArrangement trial, the
\* engine reporting motion, the engine holds the six initial directives
C15_Witness ==
    /\ Relation
    /\ pc = "frames"
    /\ frame = 40
    /\ resp = "resp_moving"
    /\ Len(sent) = 6

====
